---------------------------- MODULE Spec2Model ----------------------------
(***************************************************************************)
(* Model of the object writer of repo/object (object_writer.go): the       *)
(* streaming writer, its chunk flush protocol, the nested index writer of  *)
(* Result, and the collaborators it calls (splitter, compressor, content   *)
(* manager, object ID codec, JSON encoding of the indirect index).         *)
(***************************************************************************)
EXTENDS Integers, Sequences, FiniteSets, TLC

(***************************************************************************)
(* Bounds of the model.                                                    *)
(***************************************************************************)
MaxSegmentSize == 3      \* splitter.MaxSegmentSize(): hard split bound
MaxWriteLen == 2         \* longest slice passed to one Write call
MaxTotal == 4            \* cap on the bytes passed to Write over a run
MaxOps == 3              \* cap on the calls (Write, Result, Close) of a run
MaxFlush == 2            \* a fault can hit the 1st..MaxFlush-th flush of a call
MaxCalls == 4            \* cap on the calls made on the contentIDTracker
MaxSize == 2             \* largest size of a b2Cache
MaxCacheCalls == 4       \* cap on the calls made on the b2Cache
MaxTime == 3             \* last tick of the clock read by time.Now()
MaxRead == 3             \* most bytes the B2 reader delivers to one GetBlob

Bytes == 0..1            \* the byte alphabet of the caller's stream
SplitByte == 0           \* byte on which the content-defined splitter splits
Prefixes == {"", "k"}    \* content.ID prefix of the writer ("" or g..z)

Radix == 32              \* radix of the integer coding of one index entry
EntryBase == 1000        \* first code of an encoded index entry
StreamTag == 999         \* the "kopia:indirect" stream sentinel

VARIABLES w,        \* the objectWriter under test
          store,    \* content manager: sequence of [payload, prefix]
          log,      \* history of flushBuffer calls that reached WriteContent
          ret,      \* what the last call returned, and what it did
          hist,     \* history of the run (stream written, failures)
          peer,     \* a second writer on the same content manager
          tracker,  \* the contentIDTracker and the goroutines that use it
          cache,    \* a b2Cache, its clock and the goroutines that use it
          blob      \* the last b2Storage.GetBlob call and what it returned

\* The state outside the writer under test and its content manager.
outside == <<peer, tracker, cache, blob>>

vars == <<w, store, log, ret, hist, peer, tracker, cache, blob>>

NoErr == "nil"

(***************************************************************************)
(* Object ID codec.  An ID is the text <"I"*><"Z"?><ContentID>; the model  *)
(* keeps the number of I sigils, the Z sigil and the content ID.  The      *)
(* unset ID "" has no sigil and no content ID.                             *)
(***************************************************************************)
EmptyID == [ind |-> 0, z |-> FALSE, cid |-> 0]

DirectObjectID(contentID) == [ind |-> 0, z |-> FALSE, cid |-> contentID]

Compressed(oid) == [oid EXCEPT !.z = TRUE]

IndirectObjectID(oid) == [oid EXCEPT !.ind = @ + 1]

(***************************************************************************)
(* Splitter: splits after SplitByte (content-defined boundary) and after   *)
(* MaxSegmentSize bytes without a split (hard split).  Its state is the    *)
(* number n of bytes seen since the last split.  A splitter of kind "lax"  *)
(* breaks the contract: it reports MaxSegmentSize but never hard-splits.   *)
(***************************************************************************)
newSplitter(kind) == [n |-> 0, kind |-> kind]

ShouldSplit(s, d) ==
    LET split == (d = SplitByte) \/ (s.kind = "hard" /\ s.n + 1 >= MaxSegmentSize)
    IN  [split |-> split, s |-> [s EXCEPT !.n = IF split THEN 0 ELSE @ + 1]]

(***************************************************************************)
(* Compressor: run-length coding, <<count, byte, count, byte, ...>>.       *)
(* Its output is shorter than, as long as, or longer than its input,       *)
(* depending on the input.                                                 *)
(***************************************************************************)
RECURSIVE RunLength(_)
RunLength(s) ==
    IF Len(s) <= 1 THEN Len(s)
    ELSE IF s[2] # s[1] THEN 1
    ELSE 1 + RunLength(Tail(s))

RECURSIVE Compress(_)
Compress(input) ==
    IF input = <<>> THEN <<>>
    ELSE LET r == RunLength(input)
         IN  <<r, input[1]>> \o Compress(SubSeq(input, r + 1, Len(input)))

RECURSIVE Decompress(_)
Decompress(data) ==
    IF Len(data) < 2 THEN <<>>
    ELSE [i \in 1..data[1] |-> data[2]] \o Decompress(SubSeq(data, 3, Len(data)))

(***************************************************************************)
(* Content manager: deduplicating store.  The content ID of a payload is   *)
(* the position of (payload, prefix) in the store.                         *)
(***************************************************************************)
Lookup(st, payload, prefix) ==
    LET hits == {i \in 1..Len(st) : st[i] = [payload |-> payload, prefix |-> prefix]}
    IN  IF hits = {} THEN 0 ELSE CHOOSE i \in hits : TRUE

\* WriteContent of a payload whose content ID in the store is found (0: new).
StoreContent(st, payload, prefix, found) ==
    IF found # 0 THEN [store |-> st, cid |-> found, err |-> NoErr]
    ELSE [store |-> Append(st, [payload |-> payload, prefix |-> prefix]),
          cid |-> Len(st) + 1, err |-> NoErr]

WriteContent(st, payload, prefix, fail) ==
    IF fail THEN [store |-> st, cid |-> 0, err |-> "storage"]
    ELSE StoreContent(st, payload, prefix, Lookup(st, payload, prefix))

(***************************************************************************)
(* objectWriter                                                            *)
(***************************************************************************)
\* Besides the fields of the Go struct the writer keeps its history: the
\* bytes passed to ShouldSplit (asked), the bytes appended to the buffer
\* (appended), and for each buffered byte what ShouldSplit answered (marks).
newWriter(compressor, prefix, kind) ==
    [compressor |-> compressor, prefix |-> prefix, buffer |-> <<>>,
     totalLength |-> 0, currentPosition |-> 0, indirectIndex |-> <<>>,
     splitter |-> newSplitter(kind), released |-> 0, splitterClosed |-> 0,
     asked |-> <<>>, appended |-> <<>>, marks |-> <<>>]

\* The environment a call runs in: the content manager, the call history,
\* the number of flushBuffer calls made so far by this call (nested writers
\* included), the injected fault, the number of nested writers made, and
\* the nested writers as they were when Result returned.
newEnv(st, lg, fault) ==
    [store |-> st, log |-> lg, n |-> 0, fault |-> fault, created |-> 0,
     nested |-> <<>>]

Close(wr) ==
    [wr EXCEPT !.released = @ + 1, !.splitterClosed = @ + 1]

\* Faulty variant: compressed output is kept when it is not longer than the input.
maybeCompressedContentBytes_KeepEqual(comp, input, fail) ==
    IF comp /\ fail THEN [data |-> <<>>, isCompressed |-> FALSE, err |-> "compress"]
    ELSE IF comp /\ Len(Compress(input)) <= Len(input)
         THEN [data |-> Compress(input), isCompressed |-> TRUE, err |-> NoErr]
         ELSE [data |-> input, isCompressed |-> FALSE, err |-> NoErr]

maybeCompressedContentBytes(comp, input, fail) ==
    IF comp /\ fail THEN [data |-> <<>>, isCompressed |-> FALSE, err |-> "compress"]
    ELSE IF comp /\ Len(Compress(input)) < Len(input)
         THEN [data |-> Compress(input), isCompressed |-> TRUE, err |-> NoErr]
         ELSE [data |-> input, isCompressed |-> FALSE, err |-> NoErr]

\* Faulty variant: the entry starts at totalLength instead of currentPosition.
appendEntry_StartAtTotal(wr) ==
    LET length == Len(wr.buffer)
    IN  [wr EXCEPT !.indirectIndex =
                       Append(@, [Start |-> wr.totalLength,
                                  Length |-> length, Object |-> EmptyID]),
                   !.currentPosition = @ + length]

\* flushBuffer, first part: the entry of the chunk is appended before the
\* chunk is written.
appendEntry(wr) ==
    LET length == Len(wr.buffer)
    IN  [wr EXCEPT !.indirectIndex =
                       Append(@, [Start |-> wr.currentPosition,
                                  Length |-> length, Object |-> EmptyID]),
                   !.currentPosition = @ + length]

\* w.buffer.Reset()
bufferReset(wr) == [wr EXCEPT !.buffer = <<>>, !.marks = <<>>]

\* Faulty variant: the entry of the chunk is kept only when WriteContent
\* succeeded.
flushWritten_EntryOnSuccess(wr, w1, e, depth, mc, wc) ==
    [w |-> IF wc.err # NoErr THEN bufferReset(wr)
           ELSE [bufferReset(w1) EXCEPT
                    !.indirectIndex[Len(w1.indirectIndex)].Object =
                        IF mc.isCompressed THEN Compressed(DirectObjectID(wc.cid))
                                           ELSE DirectObjectID(wc.cid)],
     e |-> [e EXCEPT !.n = @ + 1,
                     !.store = wc.store,
                     !.log = Append(@, [depth |-> depth,
                                        chunkID |-> Len(w1.indirectIndex),
                                        chunk |-> wr.buffer, payload |-> mc.data,
                                        marks |-> wr.marks,
                                        position |-> wr.currentPosition,
                                        prefix |-> wr.prefix,
                                        compressor |-> wr.compressor,
                                        isCompressed |-> mc.isCompressed,
                                        cid |-> wc.cid, err |-> wc.err])],
     err |-> wc.err]

\* flushBuffer after WriteContent returned wc for the payload mc of the chunk
\* wr.buffer; w1 is the writer with the entry of the chunk appended.
flushWritten(wr, w1, e, depth, mc, wc) ==
    [w |-> IF wc.err # NoErr THEN bufferReset(w1)
           ELSE [bufferReset(w1) EXCEPT
                    !.indirectIndex[Len(w1.indirectIndex)].Object =
                        IF mc.isCompressed THEN Compressed(DirectObjectID(wc.cid))
                                           ELSE DirectObjectID(wc.cid)],
     e |-> [e EXCEPT !.n = @ + 1,
                     !.store = wc.store,
                     !.log = Append(@, [depth |-> depth,
                                        chunkID |-> Len(w1.indirectIndex),
                                        chunk |-> wr.buffer, payload |-> mc.data,
                                        marks |-> wr.marks,
                                        position |-> wr.currentPosition,
                                        prefix |-> wr.prefix,
                                        compressor |-> wr.compressor,
                                        isCompressed |-> mc.isCompressed,
                                        cid |-> wc.cid, err |-> wc.err])],
     err |-> wc.err]

\* flushBuffer after maybeCompressedContentBytes returned mc.
flushPrepared(wr, w1, e, depth, mc) ==
    IF mc.err # NoErr THEN [w |-> w1, e |-> [e EXCEPT !.n = @ + 1], err |-> mc.err]
    ELSE flushWritten(wr, w1, e, depth, mc,
                      WriteContent(e.store, mc.data, wr.prefix,
                          e.fault.kind = "storage" /\ e.fault.at = e.n + 1))

flushBuffer(wr, e, depth) ==
    flushPrepared(wr, appendEntry(wr), e, depth,
                  maybeCompressedContentBytes(wr.compressor, wr.buffer,
                      e.fault.kind = "compress" /\ e.fault.at = e.n + 1))

RECURSIVE WriteLoop(_, _, _, _)

\* Faulty variant: Write returns after the first flush, leaving the rest unread.
WriteFlushed_StopAfterFlush(f, rest, depth) == f

\* Write, after a flush f in the loop: its error ends the loop.
WriteFlushed(f, rest, depth) ==
    IF f.err # NoErr THEN f ELSE WriteLoop(f.w, f.e, rest, depth)

\* Write, w.buffer.WriteByte(d) and w.splitter.ShouldSplit(d), which
\* answered sp.
appendByte(wr, d, sp) ==
    [wr EXCEPT !.buffer = Append(@, d), !.splitter = sp.s,
               !.appended = Append(@, d), !.asked = Append(@, d),
               !.marks = Append(@, sp.split)]

\* Faulty variant: the splitter is asked, and the chunk flushed, before the byte is
\* appended to the buffer.
WriteByte_SplitBeforeAppend(wr, e, d, sp, rest, depth) ==
    IF sp.split
    THEN WriteFlushed([w   |-> appendByte(
                                  flushBuffer([wr EXCEPT !.splitter = sp.s], e, depth).w,
                                  d, sp),
                       e   |-> flushBuffer([wr EXCEPT !.splitter = sp.s], e, depth).e,
                       err |-> flushBuffer([wr EXCEPT !.splitter = sp.s], e, depth).err],
                      rest, depth)
    ELSE WriteLoop(appendByte(wr, d, sp), e, rest, depth)

\* Write, one round of the loop: byte d is appended, then the splitter's
\* answer sp decides whether the chunk is flushed.
WriteByte(wr, e, d, sp, rest, depth) ==
    IF sp.split
    THEN WriteFlushed(flushBuffer(appendByte(wr, d, sp), e, depth), rest, depth)
    ELSE WriteLoop(appendByte(wr, d, sp), e, rest, depth)

WriteLoop(wr, e, data, depth) ==
    IF data = <<>> THEN [w |-> wr, e |-> e, err |-> NoErr]
    ELSE WriteByte(wr, e, Head(data), ShouldSplit(wr.splitter, Head(data)),
                   Tail(data), depth)

\* Write, its return: the bytes written (0 on error) and the error.
WriteReturn(r, dataLen) ==
    [w |-> r.w, e |-> r.e, n |-> IF r.err = NoErr THEN dataLen ELSE 0,
     err |-> r.err]

\* Faulty variant: bytes left in the buffer by an earlier call are flushed
\* before the call appends its first byte.
Write_FlushPending(wr, e, data, depth) ==
    LET Begin(f) == IF f.err # NoErr THEN f
                    ELSE WriteLoop([f.w EXCEPT !.totalLength = @ + Len(data)],
                                   f.e, data, depth)
    IN  WriteReturn(IF Len(wr.buffer) > 0 /\ Len(data) > 0
                    THEN Begin(flushBuffer(wr, e, depth))
                    ELSE WriteLoop([wr EXCEPT !.totalLength = @ + Len(data)],
                                   e, data, depth),
                    Len(data))

\* Faulty variant: the bytes still buffered when the call ends are flushed,
\* so the chunk boundaries follow the slicing of the stream.
Write_FlushAtCallEnd(wr, e, data, depth) ==
    LET Rest(r) == IF r.err = NoErr /\ Len(r.w.buffer) > 0
                   THEN flushBuffer(r.w, r.e, depth) ELSE r
    IN  WriteReturn(Rest(WriteLoop([wr EXCEPT !.totalLength = @ + Len(data)],
                                   e, data, depth)),
                    Len(data))

Write(wr, e, data, depth) ==
    WriteReturn(WriteLoop([wr EXCEPT !.totalLength = @ + Len(data)], e, data, depth),
                Len(data))

(***************************************************************************)
(* JSON encoding of the indirect index: the stream sentinel followed by    *)
(* one unit per entry, in declaration order.  A unit is the integer code   *)
(* of (Start, Length, Object).                                             *)
(***************************************************************************)
EncodeID(oid) == oid.ind + 4 * ((IF oid.z THEN 1 ELSE 0) + 2 * oid.cid)

DecodeID(c) == [ind |-> c % 4, z |-> ((c \div 4) % 2 = 1), cid |-> c \div 8]

EncodeEntry(en) ==
    EntryBase + en.Start + Radix * (en.Length + Radix * EncodeID(en.Object))

DecodeEntry(u) ==
    LET c == u - EntryBase
    IN  [Start |-> c % Radix, Length |-> (c \div Radix) % Radix,
         Object |-> DecodeID(c \div (Radix * Radix))]

EncodeIndirect(entries) ==
    <<StreamTag>> \o [i \in 1..Len(entries) |-> EncodeEntry(entries[i])]

DecodeIndirect(doc) ==
    [i \in 1..(Len(doc) - 1) |-> DecodeEntry(doc[i + 1])]

\* Faulty variant: Result flushes only when bytes are pending.
needsFinalFlush_OnlyPending(wr) == Len(wr.buffer) > 0

\* Result flushes once more when bytes are pending or nothing was flushed.
needsFinalFlush(wr) == Len(wr.buffer) > 0 \/ Len(wr.indirectIndex) = 0

\* Faulty variant: an index of two entries is also returned as its first object.
isSingleChunk_UpToTwo(wr) == Len(wr.indirectIndex) <= 2

\* Result returns the only entry's object directly.
isSingleChunk(wr) == Len(wr.indirectIndex) = 1

RECURSIVE Result(_, _, _)

\* Faulty variant: the nested writer is closed only when its Result succeeded.
ResultIndirect_CloseOnSuccess(wr, r) ==
    [w |-> wr,
     e |-> IF r.err # NoErr THEN r.e
           ELSE [r.e EXCEPT !.nested = Append(@, Close(r.w))],
     id |-> IF r.err # NoErr THEN EmptyID ELSE IndirectObjectID(r.id),
     err |-> r.err]

\* Faulty variant: returning an indirect ID moves the cursor of the writer.
ResultIndirect_MovesCursor(wr, r) ==
    [w |-> [wr EXCEPT !.currentPosition = @ + 1],
     e |-> [r.e EXCEPT !.nested = Append(@, Close(r.w))],
     id |-> IF r.err # NoErr THEN EmptyID ELSE IndirectObjectID(r.id),
     err |-> r.err]

\* Result, the return of the deferred iw.Close(): the nested writer iw is
\* closed, and its nested Result r is wrapped as an indirect ID.
ResultIndirect(wr, r) ==
    [w |-> wr, e |-> [r.e EXCEPT !.nested = Append(@, Close(r.w))],
     id |-> IF r.err # NoErr THEN EmptyID ELSE IndirectObjectID(r.id),
     err |-> r.err]

\* Result after the index document was written to the nested writer (enc).
ResultEncoded(wr, enc, depth) ==
    IF enc.err # NoErr
    THEN [w |-> wr, e |-> [enc.e EXCEPT !.nested = Append(@, Close(enc.w))],
          id |-> EmptyID, err |-> enc.err]
    ELSE ResultIndirect(wr, Result(enc.w, enc.e, depth + 1))

\* Faulty variant: the index writer inherits the compressor of the writer.
newIndexWriter_Compressing(wr) ==
    newWriter(wr.compressor, wr.prefix, wr.splitter.kind)

\* Result, the nested writer iw of the index: no compressor, a fresh
\* splitter of the manager's kind, the prefix of the writer.
newIndexWriter(wr) == newWriter(FALSE, wr.prefix, wr.splitter.kind)

\* Result after the final flush f.
ResultFlushed(f, depth) ==
    IF f.err # NoErr THEN [w |-> f.w, e |-> f.e, id |-> EmptyID, err |-> f.err]
    ELSE IF isSingleChunk(f.w)
    THEN [w |-> f.w, e |-> f.e, id |-> f.w.indirectIndex[1].Object, err |-> NoErr]
    ELSE ResultEncoded(f.w,
                       Write(newIndexWriter(f.w),
                             [f.e EXCEPT !.created = @ + 1],
                             EncodeIndirect(f.w.indirectIndex), depth + 1),
                       depth)

Result(wr, e, depth) ==
    IF needsFinalFlush(wr) THEN ResultFlushed(flushBuffer(wr, e, depth), depth)
    ELSE ResultFlushed([w |-> wr, e |-> e, err |-> NoErr], depth)

(***************************************************************************)
(* Reader side: the bytes an object ID reads back as.  Unreadable (unset)  *)
(* IDs read as <<-1>>.                                                     *)
(***************************************************************************)
RECURSIVE ReadObject(_, _)
RECURSIVE ReadEntries(_, _)
ReadEntries(entries, st) ==
    IF entries = <<>> THEN <<>>
    ELSE ReadObject(Head(entries).Object, st) \o ReadEntries(Tail(entries), st)

\* The object that the index document doc lists.
ReadIndirect(doc, st) ==
    IF doc = <<>> \/ doc[1] # StreamTag THEN <<-1>>
    ELSE ReadEntries(DecodeIndirect(doc), st)

ReadObject(oid, st) ==
    IF oid.ind > 0 THEN ReadIndirect(ReadObject([oid EXCEPT !.ind = @ - 1], st), st)
    ELSE IF oid.cid = 0 \/ oid.cid > Len(st) THEN <<-1>>
    ELSE IF oid.z THEN Decompress(st[oid.cid].payload)
    ELSE st[oid.cid].payload

(***************************************************************************)
(* The state machine: a caller drives one writer.                          *)
(***************************************************************************)
Faults ==
    {[at |-> 0, kind |-> "storage"]} \cup
    [at : 1..MaxFlush, kind : {"storage", "compress"}]

Slices == UNION {[1..n -> Bytes] : n \in 0..MaxWriteLen}

NoRet ==
    [op |-> "none", n |-> 0, id |-> EmptyID, err |-> NoErr, logBefore |-> 0,
     indexBefore |-> 0, created |-> 0, nested |-> <<>>, flushes |-> 0,
     dataLen |-> 0, accepted |-> 0, closedBefore |-> 0,
     prevOp |-> "none", prevId |-> EmptyID, totalBefore |-> 0,
     positionBefore |-> 0]

NoHist ==
    [stream |-> <<>>, ops |-> 0, failed |-> FALSE, poison |-> NoErr,
     poisonedBefore |-> FALSE, results |-> 0]

\* No second writer, no tracker in use.
NoPeer == [w |-> newWriter(FALSE, "", "hard"), stream |-> <<>>, ops |-> 0,
           results |-> 0, id |-> EmptyID, err |-> NoErr]

(***************************************************************************)
(* The contentIDTracker: a mutex and a map used as a set.  The map is nil  *)
(* until the first insertion; a Go map assignment overwrites the value of  *)
(* a key that is present.  A slice is an array on the heap, referred to by *)
(* its index in `slices`.                                                  *)
(***************************************************************************)
Goroutines == {"g1", "g2", "g3"}

IDs == {"a", "b"}

NoHolder == "free"

NilMap == [isNil |-> TRUE, m |-> <<>>]

\* Faulty variant: the map is taken for nil on every insertion.
isNilMap_Always(c) == TRUE

\* t.contents == nil
isNilMap(c) == c.isNil

\* make(map[content.ID]bool)
makeMap == [isNil |-> FALSE, m |-> <<>>]

\* t.contents[contentID] = true
mapStore(c, id) ==
    [c EXCEPT !.m = [x \in (DOMAIN c.m) \cup {id} |-> TRUE]]

\* Faulty variant: Lock returns although another goroutine holds the mutex.
muFree_Always(t) == TRUE

\* t.mu.Lock() returns only when no goroutine holds the mutex.
muFree(t) == t.mu = NoHolder

SliceSet(sl) == {sl[i] : i \in 1..Len(sl)}

NoDup(sl) == \A i, j \in 1..Len(sl) : sl[i] = sl[j] => i = j

NoReturn ==
    [valid |-> FALSE, slice |-> 0, ids |-> <<>>, stored |-> {},
     doneAtCall |-> {}, begunAtReturn |-> {}, quiet |-> FALSE]

NoTracker ==
    [mu |-> NoHolder,
     contents |-> NilMap,
     pc |-> [g \in Goroutines |-> "idle"],
     arg |-> [g \in Goroutines |-> "a"],
     todo |-> [g \in Goroutines |-> {}],
     result |-> [g \in Goroutines |-> 0],
     slices |-> <<>>,
     returned |-> [g \in Goroutines |-> NoReturn],
     doneAtCall |-> [g \in Goroutines |-> {}],
     addsAtCall |-> [g \in Goroutines |-> 0],
     calls |-> 0,
     begun |-> {},
     done |-> {},
     stored |-> {},
     adds |-> 0]

(***************************************************************************)
(* The b2Cache (b2_cache.go): a map from blob ID to entry (object, time of *)
(* insertion) and a ring of `size` slots holding the IDs in insertion      *)
(* order.  A *b2.Object is the number of the Add call that passed it, so   *)
(* every Add passes an object of its own; time is counted in ticks.        *)
(***************************************************************************)
Minute == 2              \* time.Minute, in ticks of the clock

BlobIDs == {"a", "b", "c"}

NilValue == "nil"        \* ring.Value of a slot that was never filled

NilObject == 0           \* the nil *b2.Object

CacheGoroutines == {"g1", "g2"}

\* newB2Cache(size): an empty map and ring.New(size), all slots nil.
newB2Cache(size) ==
    [entries |-> <<>>, ring |-> [i \in 1..size |-> NilValue], pos |-> 1]

\* Faulty variant: the ring stays on its slot.
ringNext_Stay(c) == c.pos

\* ring.Next()
ringNext(c) == (c.pos % Len(c.ring)) + 1

\* delete(c.entries, id)
mapDelete(m, id) == [x \in (DOMAIN m) \ {id} |-> m[x]]

\* Faulty variant: the slot is overwritten without forgetting its ID.
evictSlot_Keep(c) == c

\* Add: if c.ring.Value != nil { delete(c.entries, c.ring.Value.(blob.ID)) }
evictSlot(c) ==
    IF c.ring[c.pos] # NilValue
    THEN [c EXCEPT !.entries = mapDelete(@, c.ring[c.pos])]
    ELSE c

\* Add, after the eviction: the entry is stored with time.Now(), the slot
\* takes the ID and the ring moves on.
storeEntry(c, id, o, now) ==
    [c EXCEPT !.entries = [x \in (DOMAIN c.entries) \cup {id} |->
                              IF x = id THEN [o |-> o, ts |-> now]
                                        ELSE c.entries[x]],
              !.ring[c.pos] = id,
              !.pos = ringNext(c)]

\* b2Cache.Add, under the mutex.
Add(c, id, o, now) == storeEntry(evictSlot(c), id, o, now)

\* Faulty variant: an entry expires as soon as the clock has moved on.
isOutdated_AnyAge(ts, now) == ts < now

\* entry.ts.Before(time.Now().Add(-1 * time.Minute))
isOutdated(ts, now) == ts < now - Minute

\* b2Cache.Get, under the mutex: the cache after the call and the object
\* returned.
Get(c, id, now) ==
    IF id \notin DOMAIN c.entries
    THEN [c |-> c, o |-> NilObject]
    ELSE IF isOutdated(c.entries[id].ts, now)
         THEN [c |-> [c EXCEPT !.entries = mapDelete(@, id)], o |-> NilObject]
         ELSE [c |-> c, o |-> c.entries[id].o]

(***************************************************************************)
(* b2Storage.GetBlob (b2_storage.go).  The B2 reader and the throttler are *)
(* outside the repository: one call sees a throttler error, a read error   *)
(* or some bytes, fewer, as many or more than were asked for.              *)
(***************************************************************************)
Offsets == 0..1

Lengths == -1..MaxRead

Reads == UNION {[1..n -> Bytes] : n \in 0..MaxRead}

IOs ==
    [throttle : {NoErr, "throttler"}, read : {NoErr}, b : {<<>>}] \cup
    [throttle : {NoErr}, read : {"not exist", "io"}, b : {<<>>}] \cup
    [throttle : {NoErr}, read : {NoErr}, b : Reads]

\* int(length): the builds modelled have a 64-bit int, on which the
\* conversion of an int64 is exact.
ToInt(length) == length

translateError(err) == IF err = "not exist" THEN "ErrBlobNotFound" ELSE err

\* Faulty variant: only a read that is too long is rejected.
lengthMismatch_LongOnly(b, length) == Len(b) > ToInt(length) /\ length > 0

\* len(b) != int(length) && length > 0
lengthMismatch(b, length) == Len(b) # ToInt(length) /\ length > 0

\* GetBlob, given what the throttler and the reader do in this call.
GetBlob(id, offset, length, io) ==
    IF io.throttle # NoErr
    THEN [b |-> <<>>, isNil |-> TRUE, err |-> io.throttle]
    ELSE IF io.read # NoErr
    THEN [b |-> <<>>, isNil |-> TRUE, err |-> translateError(io.read)]
    ELSE IF lengthMismatch(io.b, length)
    THEN [b |-> <<>>, isNil |-> TRUE, err |-> "invalid length"]
    ELSE IF length = 0
    THEN [b |-> <<>>, isNil |-> FALSE, err |-> NoErr]
    ELSE [b |-> io.b, isNil |-> FALSE, err |-> NoErr]

NoBlob ==
    [called |-> FALSE, id |-> "a", offset |-> 0, length |-> 0,
     ranged |-> FALSE,
     io |-> [throttle |-> NoErr, read |-> NoErr, b |-> <<>>],
     b |-> <<>>, isNil |-> TRUE, err |-> NoErr]

NoGot ==
    [valid |-> FALSE, id |-> "a", o |-> NilObject, at |-> 0, adds |-> <<>>,
     present |-> FALSE, ts |-> 0, forgotten |-> FALSE]

NoCache ==
    [c |-> newB2Cache(1),
     mtx |-> NoHolder,
     now |-> 0,
     pc |-> [g \in CacheGoroutines |-> "idle"],
     got |-> NoGot,
     adds |-> <<>>,
     forgotten |-> {},
     calls |-> 0]

\* The last Add of id in the history h of Add calls, 0 when there is none.
lastAdd(h, id) ==
    IF \E i \in 1..Len(h) : h[i].id = id
    THEN CHOOSE i \in 1..Len(h) :
            h[i].id = id /\ \A j \in (i + 1)..Len(h) : h[j].id # id
    ELSE 0

distinctIDs(h) == \A i, j \in 1..Len(h) : h[i].id = h[j].id => i = j

InitWriter(kind) ==
    /\ \E c \in BOOLEAN, p \in Prefixes : w = newWriter(c, p, kind)
    /\ store = <<>>
    /\ log = <<>>
    /\ ret = NoRet
    /\ hist = NoHist

Init ==
    /\ InitWriter("hard")
    /\ peer = NoPeer
    /\ tracker = NoTracker
    /\ cache = NoCache
    /\ blob = NoBlob

Open == w.released = 0

Advance(op, err) ==
    [hist EXCEPT !.ops = @ + 1,
                 !.failed = @ \/ err # NoErr,
                 !.poisonedBefore = (hist.poison # NoErr),
                 !.poison = IF @ = NoErr /\ err = "storage" THEN err ELSE @,
                 !.results = IF op = "Result" THEN @ + 1 ELSE @]

CallWrite(data, fault) ==
    /\ Open
    /\ hist.ops < MaxOps
    /\ Len(hist.stream) + Len(data) <= MaxTotal
    /\ \E r \in {Write(w, newEnv(store, log, fault), data, 0)} :
           /\ w' = r.w
           /\ store' = r.e.store
           /\ log' = r.e.log
           /\ ret' = [op |-> "Write", n |-> r.n, id |-> EmptyID, err |-> r.err,
                      logBefore |-> Len(log),
                      indexBefore |-> Len(w.indirectIndex),
                      created |-> r.e.created, nested |-> r.e.nested,
                      flushes |-> r.e.n, dataLen |-> Len(data),
                      accepted |-> Len(r.w.appended) - Len(w.appended),
                      closedBefore |-> 0,
                      prevOp |-> "none", prevId |-> EmptyID,
                      totalBefore |-> 0, positionBefore |-> 0]
           /\ hist' = [Advance("Write", r.err) EXCEPT !.stream = @ \o data]
           /\ UNCHANGED outside

CallResult(fault) ==
    /\ Open
    /\ hist.ops < MaxOps
    /\ \E r \in {Result(w, newEnv(store, log, fault), 0)} :
           /\ w' = r.w
           /\ store' = r.e.store
           /\ log' = r.e.log
           /\ ret' = [op |-> "Result", n |-> 0, id |-> r.id, err |-> r.err,
                      logBefore |-> Len(log),
                      indexBefore |-> Len(w.indirectIndex),
                      created |-> r.e.created, nested |-> r.e.nested,
                      flushes |-> r.e.n, dataLen |-> 0, accepted |-> 0,
                      closedBefore |-> 0,
                      prevOp |-> ret.op, prevId |-> ret.id,
                      totalBefore |-> w.totalLength,
                      positionBefore |-> w.currentPosition]
           /\ hist' = Advance("Result", r.err)
           /\ UNCHANGED outside

CallClose ==
    /\ hist.ops < MaxOps
    /\ w' = Close(w)
    /\ ret' = [NoRet EXCEPT !.op = "Close", !.logBefore = Len(log),
                            !.indexBefore = Len(w.indirectIndex),
                            !.closedBefore = w.released]
    /\ hist' = [hist EXCEPT !.ops = @ + 1]
    /\ UNCHANGED <<store, log>>
    /\ UNCHANGED outside

Next ==
    \/ \E data \in Slices, fault \in Faults : CallWrite(data, fault)
    \/ \E fault \in Faults : CallResult(fault)
    \/ CallClose

Spec == Init /\ [][Next]_vars

\* The same caller and writer over a splitter that breaks its contract.
InitLax ==
    /\ InitWriter("lax")
    /\ peer = NoPeer
    /\ tracker = NoTracker
    /\ cache = NoCache
    /\ blob = NoBlob

SpecLax == InitLax /\ [][Next]_vars

(***************************************************************************)
(* Two writers of the same configuration over one content manager, each    *)
(* fed a stream in slices of its own and finished by one Result; no call   *)
(* fails.  Streams that can no longer become equal are not pursued.        *)
(***************************************************************************)
NoFault == [at |-> 0, kind |-> "storage"]

SplitterKinds == {"hard", "lax"}

IsPrefix(s, t) == Len(s) <= Len(t) /\ SubSeq(t, 1, Len(s)) = s

Compatible(s, t) == IsPrefix(s, t) \/ IsPrefix(t, s)

InitPair ==
    /\ \E c \in BOOLEAN, p \in Prefixes, kind \in SplitterKinds :
           /\ w = newWriter(c, p, kind)
           /\ peer = [NoPeer EXCEPT !.w = newWriter(c, p, kind)]
    /\ store = <<>>
    /\ log = <<>>
    /\ ret = NoRet
    /\ hist = NoHist
    /\ tracker = NoTracker
    /\ cache = NoCache
    /\ blob = NoBlob

PairWrite(data) ==
    /\ hist.results = 0
    /\ hist.ops < MaxOps
    /\ Len(hist.stream) + Len(data) <= MaxTotal
    /\ Compatible(hist.stream \o data, peer.stream)
    /\ \E r \in {Write(w, newEnv(store, <<>>, NoFault), data, 0)} :
           /\ w' = r.w
           /\ store' = r.e.store
           /\ ret' = [NoRet EXCEPT !.op = "Write", !.n = r.n, !.err = r.err,
                                   !.dataLen = Len(data)]
           /\ hist' = [Advance("Write", r.err) EXCEPT !.stream = @ \o data]
    /\ UNCHANGED <<log, peer, tracker, cache, blob>>

PairResult ==
    /\ hist.results = 0
    /\ hist.ops < MaxOps
    /\ \E r \in {Result(w, newEnv(store, <<>>, NoFault), 0)} :
           /\ w' = r.w
           /\ store' = r.e.store
           /\ ret' = [NoRet EXCEPT !.op = "Result", !.id = r.id, !.err = r.err]
           /\ hist' = Advance("Result", r.err)
    /\ UNCHANGED <<log, peer, tracker, cache, blob>>

PeerWrite(data) ==
    /\ peer.results = 0
    /\ peer.ops < MaxOps
    /\ Len(peer.stream) + Len(data) <= MaxTotal
    /\ Compatible(peer.stream \o data, hist.stream)
    /\ \E r \in {Write(peer.w, newEnv(store, <<>>, NoFault), data, 0)} :
           /\ peer' = [peer EXCEPT !.w = r.w, !.stream = @ \o data,
                                   !.ops = @ + 1, !.err = r.err]
           /\ store' = r.e.store
    /\ UNCHANGED <<w, log, ret, hist, tracker, cache, blob>>

PeerResult ==
    /\ peer.results = 0
    /\ peer.ops < MaxOps
    /\ \E r \in {Result(peer.w, newEnv(store, <<>>, NoFault), 0)} :
           /\ peer' = [peer EXCEPT !.w = r.w, !.ops = @ + 1, !.results = 1,
                                   !.id = r.id, !.err = r.err]
           /\ store' = r.e.store
    /\ UNCHANGED <<w, log, ret, hist, tracker, cache, blob>>

NextPair ==
    \/ \E data \in Slices : PairWrite(data)
    \/ PairResult
    \/ \E data \in Slices : PeerWrite(data)
    \/ PeerResult

SpecPair == InitPair /\ [][NextPair]_vars

(***************************************************************************)
(* Goroutines calling addContentID and contentIDs on one tracker, one      *)
(* statement at a time.  No writer is in use.                              *)
(***************************************************************************)
InitTracker ==
    /\ w = NoPeer.w
    /\ store = <<>>
    /\ log = <<>>
    /\ ret = NoRet
    /\ hist = NoHist
    /\ peer = NoPeer
    /\ tracker = NoTracker
    /\ cache = NoCache
    /\ blob = NoBlob

writerVars == <<w, store, log, ret, hist, peer, cache, blob>>

\* A goroutine calls addContentID(id).
AddCall(g, id) ==
    /\ tracker.pc[g] = "idle"
    /\ tracker.calls < MaxCalls
    /\ tracker' = [tracker EXCEPT !.pc[g] = "add_lock", !.arg[g] = id,
                                  !.calls = @ + 1,
                                  !.begun = @ \cup {id}]
    /\ UNCHANGED writerVars

\* A goroutine calls contentIDs().
IDsCall(g) ==
    /\ tracker.pc[g] = "idle"
    /\ tracker.calls < MaxCalls
    /\ tracker' = [tracker EXCEPT !.pc[g] = "ids_lock",
                                  !.calls = @ + 1,
                                  !.returned[g] = NoReturn,
                                  !.doneAtCall[g] = tracker.done,
                                  !.addsAtCall[g] = tracker.adds]
    /\ UNCHANGED writerVars

\* t.mu.Lock()
Lock(g) ==
    /\ tracker.pc[g] \in {"add_lock", "ids_lock"}
    /\ muFree(tracker)
    /\ tracker' = [tracker EXCEPT !.mu = g,
                                  !.pc[g] = IF @ = "add_lock" THEN "add_check"
                                                              ELSE "ids_make"]
    /\ UNCHANGED writerVars

\* if t.contents == nil
AddCheck(g) ==
    /\ tracker.pc[g] = "add_check"
    /\ tracker' = [tracker EXCEPT !.pc[g] = IF isNilMap(tracker.contents)
                                            THEN "add_make" ELSE "add_store"]
    /\ UNCHANGED writerVars

\* t.contents = make(map[content.ID]bool)
AddMake(g) ==
    /\ tracker.pc[g] = "add_make"
    /\ tracker' = [tracker EXCEPT !.contents = makeMap,
                                  !.pc[g] = "add_store"]
    /\ UNCHANGED writerVars

\* t.contents[contentID] = true
AddStore(g) ==
    /\ tracker.pc[g] = "add_store"
    /\ tracker' = [tracker EXCEPT !.contents = mapStore(@, tracker.arg[g]),
                                  !.stored = @ \cup {tracker.arg[g]},
                                  !.pc[g] = "add_unlock"]
    /\ UNCHANGED writerVars

\* The deferred t.mu.Unlock() of addContentID, and its return.
AddReturn(g) ==
    /\ tracker.pc[g] = "add_unlock"
    /\ tracker' = [tracker EXCEPT !.mu = NoHolder,
                                  !.done = @ \cup {tracker.arg[g]},
                                  !.adds = @ + 1,
                                  !.pc[g] = "idle"]
    /\ UNCHANGED writerVars

\* result := make([]content.ID, 0, len(t.contents)), and the start of the
\* range over the keys of the map.
IDsMake(g) ==
    /\ tracker.pc[g] = "ids_make"
    /\ tracker' = [tracker EXCEPT !.slices = Append(@, <<>>),
                                  !.result[g] = Len(tracker.slices) + 1,
                                  !.todo[g] = DOMAIN tracker.contents.m,
                                  !.pc[g] = "ids_range"]
    /\ UNCHANGED writerVars

\* result = append(result, k), for the keys in the order the runtime picks.
IDsAppend(g, k) ==
    /\ tracker.pc[g] = "ids_range"
    /\ k \in tracker.todo[g]
    /\ tracker' = [tracker EXCEPT !.slices[tracker.result[g]] = Append(@, k),
                                  !.todo[g] = @ \ {k}]
    /\ UNCHANGED writerVars

\* The end of the range.
IDsRangeEnd(g) ==
    /\ tracker.pc[g] = "ids_range"
    /\ tracker.todo[g] = {}
    /\ tracker' = [tracker EXCEPT !.pc[g] = "ids_unlock"]
    /\ UNCHANGED writerVars

\* return result, with the deferred t.mu.Unlock().
IDsReturn(g) ==
    /\ tracker.pc[g] = "ids_unlock"
    /\ tracker' = [tracker EXCEPT
                      !.mu = NoHolder,
                      !.pc[g] = "idle",
                      !.returned[g] =
                          [valid |-> TRUE,
                           slice |-> tracker.result[g],
                           ids |-> tracker.slices[tracker.result[g]],
                           stored |-> tracker.stored,
                           doneAtCall |-> tracker.doneAtCall[g],
                           begunAtReturn |-> tracker.begun,
                           quiet |-> /\ tracker.begun = tracker.doneAtCall[g]
                                     /\ tracker.adds = tracker.addsAtCall[g]
                                     /\ \A h \in Goroutines :
                                           tracker.pc[h] \notin
                                               {"add_lock", "add_check", "add_make",
                                                "add_store", "add_unlock"}]]
    /\ UNCHANGED writerVars

NextTracker ==
    \/ \E g \in Goroutines, id \in IDs : AddCall(g, id)
    \/ \E g \in Goroutines : IDsCall(g)
    \/ \E g \in Goroutines : Lock(g)
    \/ \E g \in Goroutines : AddCheck(g)
    \/ \E g \in Goroutines : AddMake(g)
    \/ \E g \in Goroutines : AddStore(g)
    \/ \E g \in Goroutines : AddReturn(g)
    \/ \E g \in Goroutines : IDsMake(g)
    \/ \E g \in Goroutines, k \in IDs : IDsAppend(g, k)
    \/ \E g \in Goroutines : IDsRangeEnd(g)
    \/ \E g \in Goroutines : IDsReturn(g)

SpecTracker == InitTracker /\ [][NextTracker]_vars

(***************************************************************************)
(* Goroutines calling Add and Get on one b2Cache while the clock runs.     *)
(* Both methods hold c.mtx from their first statement to their return, so  *)
(* the body of a call is one step and a call that waits for the mutex has  *)
(* not begun.                                                              *)
(***************************************************************************)
otherVars == <<w, store, log, ret, hist, peer, tracker, blob>>

InitCache ==
    /\ w = NoPeer.w
    /\ store = <<>>
    /\ log = <<>>
    /\ ret = NoRet
    /\ hist = NoHist
    /\ peer = NoPeer
    /\ tracker = NoTracker
    /\ blob = NoBlob
    /\ \E size \in 1..MaxSize : cache = [NoCache EXCEPT !.c = newB2Cache(size)]

\* A goroutine calls Add(id, o) with an object of its own: c.mtx.Lock(),
\* which returns when no goroutine holds the mutex, and the body of Add.
CacheAdd(g, id) ==
    /\ cache.pc[g] = "idle"
    /\ cache.calls < MaxCacheCalls
    /\ cache.mtx = NoHolder
    /\ cache' = [cache EXCEPT
                    !.mtx = g,
                    !.c = Add(@, id, Len(cache.adds) + 1, cache.now),
                    !.adds = Append(@, [id |-> id, o |-> Len(cache.adds) + 1,
                                        at |-> cache.now]),
                    !.forgotten = @ \ {id},
                    !.got = NoGot,
                    !.calls = @ + 1,
                    !.pc[g] = "unlock"]
    /\ UNCHANGED otherVars

\* A goroutine calls Get(id): c.mtx.Lock() and the body of Get.
CacheGet(g, id) ==
    /\ cache.pc[g] = "idle"
    /\ cache.calls < MaxCacheCalls
    /\ cache.mtx = NoHolder
    /\ \E r \in {Get(cache.c, id, cache.now)} :
          cache' = [cache EXCEPT
                       !.mtx = g,
                       !.c = r.c,
                       !.forgotten =
                           IF id \in DOMAIN cache.c.entries
                              /\ id \notin DOMAIN r.c.entries
                           THEN @ \cup {id} ELSE @,
                       !.got =
                           [valid |-> TRUE, id |-> id, o |-> r.o,
                            at |-> cache.now, adds |-> cache.adds,
                            present |-> id \in DOMAIN cache.c.entries,
                            ts |-> IF id \in DOMAIN cache.c.entries
                                   THEN cache.c.entries[id].ts ELSE 0,
                            forgotten |-> id \in cache.forgotten],
                       !.calls = @ + 1,
                       !.pc[g] = "unlock"]
    /\ UNCHANGED otherVars

\* The deferred c.mtx.Unlock() and the return.
CacheReturn(g) ==
    /\ cache.pc[g] = "unlock"
    /\ cache' = [cache EXCEPT !.mtx = NoHolder, !.pc[g] = "idle"]
    /\ UNCHANGED otherVars

\* The clock moves on.  time.Now() is read inside the bodies only, so a
\* tick while a call returns is a tick after that call.
Tick ==
    /\ cache.now < MaxTime
    /\ \A g \in CacheGoroutines : cache.pc[g] = "idle"
    /\ cache' = [cache EXCEPT !.now = @ + 1]
    /\ UNCHANGED otherVars

NextCache ==
    \/ \E g \in CacheGoroutines, id \in BlobIDs : CacheAdd(g, id)
    \/ \E g \in CacheGoroutines, id \in BlobIDs : CacheGet(g, id)
    \/ \E g \in CacheGoroutines : CacheReturn(g)
    \/ Tick

SpecCache == InitCache /\ [][NextCache]_vars

(***************************************************************************)
(* Calls of GetBlob, one after the other, with every outcome of the read.  *)
(***************************************************************************)
InitBlob ==
    /\ w = NoPeer.w
    /\ store = <<>>
    /\ log = <<>>
    /\ ret = NoRet
    /\ hist = NoHist
    /\ peer = NoPeer
    /\ tracker = NoTracker
    /\ cache = NoCache
    /\ blob = NoBlob

GetBlobCall(id, offset, length, io) ==
    /\ \E r \in {GetBlob(id, offset, length, io)} :
          blob' = [called |-> TRUE, id |-> id, offset |-> offset,
                   length |-> length, ranged |-> length > 0, io |-> io,
                   b |-> r.b, isNil |-> r.isNil, err |-> r.err]
    /\ UNCHANGED <<w, store, log, ret, hist, peer, tracker, cache>>

NextBlob ==
    \E id \in BlobIDs, offset \in Offsets, length \in Lengths, io \in IOs :
        GetBlobCall(id, offset, length, io)

SpecBlob == InitBlob /\ [][NextBlob]_vars

(***************************************************************************)
(* Properties of the object writer.                                        *)
(***************************************************************************)
RECURSIVE SumLengths(_)
SumLengths(entries) ==
    IF entries = <<>> THEN 0
    ELSE Head(entries).Length + SumLengths(Tail(entries))

\* The chunks (uncompressed) that the flushBuffer calls of the writers at
\* the given nesting depth handed to the content manager, in call order.
RECURSIVE ChunkBytes(_, _)
ChunkBytes(lg, depth) ==
    IF lg = <<>> THEN <<>>
    ELSE (IF Head(lg).depth = depth THEN Head(lg).chunk ELSE <<>>)
         \o ChunkBytes(Tail(lg), depth)

Contiguous(wr) ==
    /\ \A i \in 1..Len(wr.indirectIndex) :
          wr.indirectIndex[i].Start =
              IF i = 1 THEN 0
              ELSE wr.indirectIndex[i - 1].Start + wr.indirectIndex[i - 1].Length
    /\ wr.currentPosition = SumLengths(wr.indirectIndex)

Shrinks(c) == c.compressor /\ Len(Compress(c.chunk)) < Len(c.chunk)

\* C1: when every Write succeeded and the Result that follows succeeds, the
\* chunks handed to the content manager, concatenated in order, are the
\* stream that was written, and the returned object reads back as it.
C1_RoundTrip ==
    (ret.op = "Result" /\ ret.err = NoErr /\ ~hist.failed) =>
        /\ ChunkBytes(log, 0) = hist.stream
        /\ ReadObject(ret.id, store) = hist.stream

C1_Witness ==
    /\ ret.op = "Result" /\ ret.err = NoErr /\ ~hist.failed
    /\ ret.id.ind >= 1
    /\ Len(hist.stream) >= 4
    /\ \E i \in 1..Len(w.indirectIndex) : w.indirectIndex[i].Object.z

\* C2 (as claimed): after a content-manager error in flushBuffer every
\* later Write returns that error, appends no index entry and makes no
\* WriteContent call.
C2_PoisonedWrite ==
    (ret.op = "Write" /\ hist.poisonedBefore) =>
        /\ ret.err = hist.poison
        /\ Len(w.indirectIndex) = ret.indexBefore
        /\ Len(log) = ret.logBefore

\* C3 (as claimed): Result on a writer on which an earlier call failed with
\* a content-manager error returns that error and no ObjectID.
C3_PoisonedResult ==
    (ret.op = "Result" /\ hist.poisonedBefore) =>
        /\ ret.err = hist.poison
        /\ ret.id = EmptyID

\* C4 (as claimed): whenever Result returns an ObjectID without error, the
\* lengths of the index entries add up to the number of bytes passed to
\* Write (totalLength).
C4_LengthsSumToTotal ==
    (ret.op = "Result" /\ ret.err = NoErr) =>
        /\ SumLengths(w.indirectIndex) = w.totalLength
        /\ w.totalLength = Len(hist.stream)

\* C5 (as claimed): after every Write that returns without error,
\* totalLength is the number of buffered bytes plus the lengths of the
\* index entries, whatever calls came before.
C5_TotalAfterWrite ==
    (ret.op = "Write" /\ ret.err = NoErr) =>
        w.totalLength = Len(w.buffer) + SumLengths(w.indirectIndex)

\* C6: in every state of a writer, failed calls included, the index entries
\* are running sums (entry 1 starts at 0, each next entry starts where the
\* previous one ends) and currentPosition is the sum of the entry lengths.
\* The same holds of the nested index writers that Result made.
C6_Contiguous ==
    /\ Contiguous(w)
    /\ \A i \in 1..Len(ret.nested) : Contiguous(ret.nested[i])

C6_Witness ==
    /\ hist.failed
    /\ Len(w.indirectIndex) >= 3
    /\ \E i \in 1..Len(w.indirectIndex) : w.indirectIndex[i].Object = EmptyID
    /\ w.currentPosition > Len(hist.stream)

\* C7: a Result that returns an ObjectID returns an indirect one exactly
\* when the index holds more than one entry after the final flush; with
\* exactly one entry it returns that entry's Object unchanged, makes no
\* nested writer and writes no index document.  A nested writer is made
\* only for an index of more than one entry.
C7_IndirectIffMany ==
    (ret.op = "Result") =>
        /\ (ret.err = NoErr) =>
              /\ (ret.id.ind > 0) <=> (Len(w.indirectIndex) > 1)
              /\ (Len(w.indirectIndex) > 1) => ret.created >= 1
        /\ (ret.err = NoErr /\ Len(w.indirectIndex) = 1) =>
              /\ ret.id = w.indirectIndex[1].Object
              /\ ret.created = 0
              /\ \A j \in (ret.logBefore + 1)..Len(log) : log[j].depth = 0
        /\ (ret.created > 0) => Len(w.indirectIndex) > 1

C7_Witness ==
    /\ ret.op = "Result" /\ ret.err = NoErr
    /\ Len(w.indirectIndex) > 1
    /\ ret.id.ind = 2

\* C8: Result on a writer that received no bytes makes exactly one
\* WriteContent call, with an empty payload, leaves exactly one index entry
\* (Start 0, Length 0) and returns the direct ObjectID of that content.
C8_EmptyObject ==
    (ret.op = "Result" /\ ret.err = NoErr /\ hist.stream = <<>> /\ ~hist.failed) =>
        /\ Len(log) = 1
        /\ log[1].payload = <<>>
        /\ log[1].err = NoErr
        /\ w.indirectIndex =
              <<[Start |-> 0, Length |-> 0, Object |-> DirectObjectID(log[1].cid)]>>
        /\ ret.id = DirectObjectID(log[1].cid)
        /\ log[1].cid # 0
        /\ ret.created = 0

C8_Witness ==
    /\ ret.op = "Result" /\ ret.err = NoErr /\ hist.stream = <<>> /\ ~hist.failed
    /\ w.compressor
    /\ hist.results = 1
    /\ ret.logBefore = 0

C10_ShrinkOrSkip ==
    \A j \in 1..Len(log) :
        LET c == log[j]
        IN  /\ Shrinks(c) => c.payload = Compress(c.chunk)
            /\ ~Shrinks(c) => c.payload = c.chunk
            /\ (c.depth = 0 /\ c.err = NoErr) =>
                  w.indirectIndex[c.chunkID].Object =
                      IF Shrinks(c) THEN Compressed(DirectObjectID(c.cid))
                                    ELSE DirectObjectID(c.cid)

C10_Witness ==
    /\ \E j \in 1..Len(log) :
          /\ Shrinks(log[j]) /\ log[j].err = NoErr /\ log[j].depth = 0
          /\ w.indirectIndex[log[j].chunkID].Object.z
    /\ \E j \in 1..Len(log) :
          /\ log[j].compressor /\ log[j].err = NoErr /\ log[j].depth = 0
          /\ Len(Compress(log[j].chunk)) > Len(log[j].chunk)
          /\ ~w.indirectIndex[log[j].chunkID].Object.z

\* C11 (as claimed): every chunk that Write flushes ends with a byte for
\* which ShouldSplit answered true and holds no such byte before it; after a
\* Write that returned without error no such byte is left in the buffer;
\* and ShouldSplit was asked once for each accepted byte, in stream order.
C11_FlushAfterSplit ==
    /\ (ret.op = "Write") =>
          \A j \in (ret.logBefore + 1)..Len(log) :
              /\ Len(log[j].chunk) >= 1
              /\ log[j].marks[Len(log[j].marks)]
              /\ \A i \in 1..(Len(log[j].marks) - 1) : ~log[j].marks[i]
    /\ (ret.op = "Write" /\ ret.err = NoErr) =>
          \A i \in 1..Len(w.marks) : ~w.marks[i]
    /\ w.asked = w.appended

\* C12: when WriteContent fails in flushBuffer, exactly one entry was
\* appended for the chunk, with Start the cursor before the flush, Length
\* the number of buffered bytes and Object unset (it stays so), the cursor
\* is advanced by Length, and the call returns the error.
C12_FailedFlushEntry ==
    /\ \A j \in 1..Len(log) :
          (log[j].err # NoErr /\ log[j].depth = 0) =>
              /\ log[j].chunkID \in DOMAIN w.indirectIndex
              /\ w.indirectIndex[log[j].chunkID] =
                    [Start |-> log[j].position, Length |-> Len(log[j].chunk),
                     Object |-> EmptyID]
    /\ (Len(log) > ret.logBefore /\ log[Len(log)].err # NoErr) =>
          /\ ret.err = log[Len(log)].err
          /\ log[Len(log)].depth > 0 => Len(ret.nested) >= 1
          /\ \A wr \in {IF log[Len(log)].depth = 0 THEN w ELSE ret.nested[1]} :
                /\ Len(wr.indirectIndex) = log[Len(log)].chunkID
                /\ wr.indirectIndex[Len(wr.indirectIndex)] =
                      [Start |-> log[Len(log)].position,
                       Length |-> Len(log[Len(log)].chunk), Object |-> EmptyID]
                /\ wr.currentPosition =
                      log[Len(log)].position + Len(log[Len(log)].chunk)

C12_Witness ==
    /\ ret.op = "Write" /\ ret.err = "storage"
    /\ Len(log) > ret.logBefore + 1
    /\ log[Len(log)].err = "storage" /\ log[Len(log)].depth = 0
    /\ log[Len(log)].position > 0
    /\ Len(w.indirectIndex) >= 2

\* C13 (as claimed): Write returns len(data) and no error when no flush
\* failed, and otherwise the error and the number of bytes it had appended
\* to the buffer.
C13_WriteCount ==
    (ret.op = "Write") =>
        /\ (ret.err = NoErr) => ret.n = ret.dataLen
        /\ (ret.err # NoErr) => ret.n = ret.accepted

\* C14: two writers with the same splitter kind, compressor and prefix
\* over one deduplicating content manager, fed the same byte stream (in
\* whatever slices) and finished by Result, end with equal index entries
\* and equal ObjectIDs.
C14_Deterministic ==
    (hist.results = 1 /\ peer.results = 1 /\ hist.stream = peer.stream) =>
        /\ ret.op = "Result" /\ ret.err = NoErr /\ peer.err = NoErr
        /\ w.indirectIndex = peer.w.indirectIndex
        /\ ret.id = peer.id

C14_Witness ==
    /\ hist.results = 1 /\ peer.results = 1 /\ hist.stream = peer.stream
    /\ hist.ops = 3 /\ peer.ops = 2
    /\ w.compressor /\ w.splitter.kind = "hard"
    /\ Len(w.indirectIndex) >= 2
    /\ ret.id = peer.id /\ ret.id.ind >= 1

\* C15 (as claimed): a second Close releases nothing and closes nothing
\* again.
C15_CloseIdempotent ==
    (ret.op = "Close" /\ ret.closedBefore >= 1) =>
        /\ w.released = ret.closedBefore
        /\ w.splitterClosed = ret.closedBefore

\* C16: every WriteContent call of a nested index writer passes the prefix
\* of the outer writer and the uncompressed bytes; the nested writers have
\* no compressor, and no ObjectID of an index chunk is of the compressed
\* variant.
C16_IndexWriterPlain ==
    /\ \A j \in 1..Len(log) :
          (log[j].depth > 0) =>
              /\ log[j].prefix = w.prefix
              /\ ~log[j].compressor
              /\ ~log[j].isCompressed
              /\ log[j].payload = log[j].chunk
    /\ \A k \in 1..Len(ret.nested) :
          /\ ~ret.nested[k].compressor
          /\ ret.nested[k].prefix = w.prefix
          /\ \A i \in 1..Len(ret.nested[k].indirectIndex) :
                ~ret.nested[k].indirectIndex[i].Object.z
    /\ (ret.id.ind > 0) => ~ret.id.z

C16_Witness ==
    /\ w.compressor /\ w.prefix = "k"
    /\ ret.op = "Result" /\ ret.err = NoErr /\ ret.id.ind >= 1
    /\ \E i \in 1..Len(w.indirectIndex) : w.indirectIndex[i].Object.z
    /\ \E j \in 1..Len(log) : log[j].depth > 0 /\ log[j].prefix = "k"

\* C17: every nested index writer that Result made was closed exactly once
\* (buffer released once, splitter closed once) when Result returned, also
\* when writing the index or the nested Result failed.
C17_IndexWriterClosedOnce ==
    (ret.op = "Result") =>
        /\ Len(ret.nested) = ret.created
        /\ \A k \in 1..Len(ret.nested) :
              /\ ret.nested[k].released = 1
              /\ ret.nested[k].splitterClosed = 1

C17_Witness ==
    /\ ret.op = "Result" /\ ret.err # NoErr
    /\ ret.created = 1
    /\ Len(ret.nested[1].indirectIndex) = 2
    /\ ret.nested[1].indirectIndex[1].Object # EmptyID

\* C18 (as claimed): no chunk longer than MaxSegmentSize reaches the content
\* manager, and a Write that lets the buffer grow beyond MaxSegmentSize
\* fails.
C18_OverlongFatal ==
    /\ \A j \in 1..Len(log) : Len(log[j].chunk) <= MaxSegmentSize
    /\ (ret.op = "Write" /\ Len(w.buffer) > MaxSegmentSize) => ret.err # NoErr

\* C19: the tracker is a set with idempotent insertion: the slice that
\* contentIDs returns holds every ID stored so far, each exactly once,
\* however often it was added.
C19_TrackerIsSet ==
    \A g \in Goroutines :
        tracker.returned[g].valid =>
            /\ NoDup(tracker.returned[g].ids)
            /\ SliceSet(tracker.returned[g].ids) = tracker.returned[g].stored

C19_Witness ==
    \E g \in Goroutines :
        /\ tracker.returned[g].valid
        /\ Len(tracker.returned[g].ids) = 1
        /\ tracker.adds >= 2
        /\ tracker.done = SliceSet(tracker.returned[g].ids)

\* C20: under every interleaving no added ID is lost: a slice returned by
\* contentIDs holds every ID whose addContentID had returned when the call
\* was made and only IDs whose addContentID had been called when it
\* returned, so it is exactly the added set when no add ran meanwhile; and
\* the returned slice is a copy that later calls leave as it was returned.
C20_NoLostID ==
    /\ tracker.mu = NoHolder =>
          (IF tracker.contents.isNil THEN {} ELSE DOMAIN tracker.contents.m)
              = tracker.stored
    /\ \A g \in Goroutines :
          tracker.returned[g].valid =>
              /\ tracker.returned[g].doneAtCall \subseteq
                     SliceSet(tracker.returned[g].ids)
              /\ SliceSet(tracker.returned[g].ids) \subseteq
                     tracker.returned[g].begunAtReturn
              /\ tracker.returned[g].quiet =>
                     SliceSet(tracker.returned[g].ids) =
                         tracker.returned[g].doneAtCall
              /\ tracker.slices[tracker.returned[g].slice] =
                     tracker.returned[g].ids

C20_Witness ==
    \E g, h \in Goroutines :
        /\ g # h
        /\ tracker.returned[g].valid
        /\ tracker.returned[g].ids = <<"b">>
        /\ tracker.returned[g].doneAtCall = {}
        /\ tracker.done = {"a", "b"}
        /\ tracker.returned[h].valid
        /\ tracker.returned[h].quiet
        /\ SliceSet(tracker.returned[h].ids) = {"a", "b"}

\* C21: after Add calls with pairwise distinct ids, all made within one
\* minute of the Get, a cache of size N returns the stored object for each
\* of the N ids added last and nil for every other id.
C21_RingEviction ==
    (/\ cache.got.valid
     /\ distinctIDs(cache.got.adds)
     /\ \A i \in 1..Len(cache.got.adds) :
           cache.got.at - cache.got.adds[i].at <= Minute) =>
        \A k \in {lastAdd(cache.got.adds, cache.got.id)} :
            IF k > 0 /\ Len(cache.got.adds) - k < Len(cache.c.ring)
            THEN cache.got.o = cache.got.adds[k].o
            ELSE cache.got.o = NilObject

C21_Witness ==
    /\ cache.got.valid
    /\ Len(cache.c.ring) = 2
    /\ Len(cache.got.adds) = 3
    /\ distinctIDs(cache.got.adds)
    /\ cache.got.at - cache.got.adds[1].at = 1
    /\ cache.got.id = cache.got.adds[1].id
    /\ cache.got.o = NilObject

\* C22: Get returns the cached object of an entry stored less than a minute
\* ago; for an entry stored more than a minute ago it returns nil and
\* removes the entry, and every Get of that id returns nil until the id is
\* added again.
C22_Expiry ==
    /\ \A id \in cache.forgotten : id \notin DOMAIN cache.c.entries
    /\ cache.got.valid =>
          /\ (cache.got.present /\ cache.got.at - cache.got.ts < Minute) =>
                /\ cache.got.o # NilObject
                /\ cache.got.o =
                      cache.got.adds[lastAdd(cache.got.adds, cache.got.id)].o
          /\ (cache.got.present /\ cache.got.at - cache.got.ts > Minute) =>
                /\ cache.got.o = NilObject
                /\ cache.got.id \notin DOMAIN cache.c.entries
                /\ cache.got.id \in cache.forgotten
          /\ cache.got.forgotten => cache.got.o = NilObject

C22_Witness ==
    /\ cache.got.valid
    /\ cache.got.forgotten
    /\ ~cache.got.present
    /\ cache.got.o = NilObject
    /\ lastAdd(cache.got.adds, cache.got.id) > 0

\* C23: GetBlob called with length > 0 returns an error or a slice of
\* exactly `length` bytes, the bytes that were read; it returns no bytes
\* with an error.
C23_NoSilentShortRead ==
    /\ (blob.called /\ blob.length > 0) =>
          \/ blob.err # NoErr
          \/ Len(blob.b) = blob.length /\ blob.b = blob.io.b /\ ~blob.isNil
    /\ (blob.called /\ blob.err # NoErr) => blob.isNil

C23_Witness ==
    /\ blob.called
    /\ blob.length = 2
    /\ blob.io.throttle = NoErr /\ blob.io.read = NoErr
    /\ Len(blob.io.b) = 1
    /\ blob.err = "invalid length"

\* C24: the chunks do not depend on the slicing of the stream: a writer
\* fed its stream in whatever Write calls (empty ones included), with no
\* error, ends with the index entries and the ObjectID of a fresh writer of
\* the same configuration that is given the whole stream in one Write.
C24_SlicingIndependent ==
    (hist.results = 1 /\ ~hist.failed) =>
        \A one \in {Write(newWriter(w.compressor, w.prefix, w.splitter.kind),
                          newEnv(store, <<>>, NoFault), hist.stream, 0)} :
            \A ref \in {Result(one.w, one.e, 0)} :
                /\ ref.err = NoErr
                /\ ref.w.indirectIndex = w.indirectIndex
                /\ ref.id = ret.id

C24_Witness ==
    /\ hist.results = 1 /\ ~hist.failed
    /\ hist.ops = 3
    /\ Len(hist.stream) = 2
    /\ w.splitter.kind = "hard"
    /\ Len(w.indirectIndex) = 2
    /\ w.indirectIndex[1].Length = 1
    /\ ret.id.ind >= 1

\* C25: on a writer where no operation has failed, a Result that follows a
\* Result appends no index entry, flushes nothing of the writer, leaves
\* totalLength and currentPosition as they were and returns the ObjectID
\* of the first call.
C25_ResultRepeatable ==
    (ret.op = "Result" /\ ret.prevOp = "Result" /\ ~hist.failed) =>
        /\ ret.err = NoErr
        /\ Len(w.indirectIndex) = ret.indexBefore
        /\ w.totalLength = ret.totalBefore
        /\ w.currentPosition = ret.positionBefore
        /\ ret.id = ret.prevId
        /\ \A j \in (ret.logBefore + 1)..Len(log) : log[j].depth > 0

C25_Witness ==
    /\ ret.op = "Result" /\ ret.prevOp = "Result" /\ ~hist.failed
    /\ ret.id.ind >= 1
    /\ ret.id = ret.prevId
    /\ Len(log) > ret.logBefore
    /\ w.totalLength >= 2

\* C26: every key of the entries map is the Value of some ring slot, and
\* the map never holds more than `size` entries.
C26_KeysInRing ==
    /\ DOMAIN cache.c.entries \subseteq
           {cache.c.ring[i] : i \in 1..Len(cache.c.ring)}
    /\ Cardinality(DOMAIN cache.c.entries) <= Len(cache.c.ring)

C26_Witness ==
    /\ Len(cache.c.ring) = 2
    /\ Len(cache.adds) = 3
    /\ distinctIDs(cache.adds)
    /\ Cardinality(DOMAIN cache.c.entries) = 1
    /\ cache.forgotten # {}

\* C27 (as claimed): with ids that may repeat, Get(id) returns the object of
\* the most recent Add(id) whenever fewer than N Add calls were made after
\* that Add and less than a minute has passed since it.
C27_MostRecentAdd ==
    cache.got.valid =>
        \A k \in {lastAdd(cache.got.adds, cache.got.id)} :
            (/\ k > 0
             /\ Len(cache.got.adds) - k < Len(cache.c.ring)
             /\ cache.got.at - cache.got.adds[k].at < Minute) =>
                cache.got.o = cache.got.adds[k].o

=============================================================================
